---------------------------- MODULE Spec2Model ----------------------------
(***************************************************************************)
(* Model of the EDA quality engine of homeworks/HW03/eda-cli               *)
(* (eda_cli/core.py): compute_basic_stats and compute_quality_flags, as    *)
(* called in that order by eda_cli/cli.py, and of the two file-upload      *)
(* handlers of homeworks/HW04/eda-cli (eda_cli/api.py), which run the same *)
(* engine on an uploaded file.                                             *)
(*                                                                         *)
(* A table (pandas DataFrame) is a sequence of columns; a column is a      *)
(* record [name, dtype, cells].  A name is the sequence of the ASCII codes *)
(* of its characters, a cell is an integer, NaN stands for a missing cell. *)
(* In an object column the integers >= 0 stand for distinct labels.        *)
(* Floating-point ratios are modelled as exact fractions [n, d]: for the   *)
(* small counts and the dyadic multipliers used here the float comparison  *)
(* and the exact comparison agree.                                         *)
(***************************************************************************)
EXTENDS Integers, Sequences, FiniteSets, TLC

VARIABLES df, high_cardinality_threshold, zero_threshold, min_missing_share,
          outlier_threshold, imbalance_threshold, pc, stats, quality, raised,
          req

vars == <<df, high_cardinality_threshold, zero_threshold, min_missing_share,
          outlier_threshold, imbalance_threshold, pc, stats, quality, raised,
          req>>

config == <<high_cardinality_threshold, zero_threshold, min_missing_share,
            outlier_threshold, imbalance_threshold>>

-----------------------------------------------------------------------------
(* Bounds of the explored inputs *)

MaxRows == 3
MaxVal == 1
MaxWideCols == 4
WideRows == 10
MaxTallRows == 11
ImbalanceRows == 20

-----------------------------------------------------------------------------
(* Arithmetic helpers *)

Max(a, b) == IF a > b THEN a ELSE b
Min(a, b) == IF a < b THEN a ELSE b
Abs(a) == IF a < 0 THEN 0 - a ELSE a

RECURSIVE GCD(_, _)
GCD(a, b) == IF b = 0 THEN a ELSE GCD(b, a % b)

(* A fraction in lowest terms with a positive denominator. *)
Rat(n, d) ==
    LET s == IF d < 0 THEN 0 - 1 ELSE 1
        g == GCD(Abs(n), Abs(d))
    IN  [n |-> (s * n) \div g, d |-> (s * d) \div g]

RLess(a, b) == a.n * b.d < b.n * a.d
RAdd(a, b) == Rat(a.n * b.d + b.n * a.d, a.d * b.d)
RSub(a, b) == Rat(a.n * b.d - b.n * a.d, a.d * b.d)
RMul(a, b) == Rat(a.n * b.n, a.d * b.d)
OfInt(i) == [n |-> i, d |-> 1]

(* Python's a / b on ints: ZeroDivisionError when b = 0. *)
ZeroDivisionError == [n |-> 0, d |-> 0]
PyDiv(a, b) == IF b = 0 THEN ZeroDivisionError ELSE Rat(a, b)

Range(s) == {s[i] : i \in 1..Len(s)}
Count(s, Test(_)) == Cardinality({i \in 1..Len(s) : Test(s[i])})
Map(s, F(_)) == [i \in 1..Len(s) |-> F(s[i])]

-----------------------------------------------------------------------------
(* pandas column primitives *)

NaN == -1

isnull(v) == v = NaN

(* Series.dropna() *)
dropna(cells) == SelectSeq(cells, LAMBDA v : ~isnull(v))

(* Series.nunique(): distinct values, missing cells not counted *)
nunique(cells) == Cardinality(Range(cells) \ {NaN})

(* Series.duplicated().sum(): every occurrence after the first one, a     *)
(* missing cell being equal to another missing cell                       *)
duplicated_sum(cells) ==
    Cardinality({i \in 1..Len(cells) : \E j \in 1..(i - 1) : cells[j] = cells[i]})

(* Series.duplicated().any() *)
duplicated_any(cells) ==
    \E i \in 1..Len(cells) : \E j \in 1..(i - 1) : cells[j] = cells[i]

(* (Series == 0).sum() *)
zero_count(cells) == Count(cells, LAMBDA v : v = 0)

(* Series.isnull().sum() *)
null_count(cells) == Count(cells, LAMBDA v : isnull(v))

(* The k-th smallest (k from 0) of a non-empty sequence of numbers. *)
Kth(vals, k) ==
    CHOOSE v \in Range(vals) :
        /\ Count(vals, LAMBDA w : w < v) <= k
        /\ k < Count(vals, LAMBDA w : w <= v)

(* Series.quantile(quarters / 4), linear interpolation between the two    *)
(* order statistics around position (n - 1) * q of the non-missing values *)
quantile(cells, quarters) ==
    LET vals == dropna(cells)
        pos4 == (Len(vals) - 1) * quarters
        lo   == pos4 \div 4
        fr   == pos4 % 4
        a    == Kth(vals, lo)
    IN  IF fr = 0 THEN OfInt(a)
        ELSE RAdd(OfInt(a), RMul(OfInt(Kth(vals, lo + 1) - a), Rat(fr, 4)))

(* str.lower() on ASCII codes *)
lower(name) == [i \in 1..Len(name) |-> IF name[i] >= 65 /\ name[i] <= 90
                                          THEN name[i] + 32 ELSE name[i]]

(* sub in name *)
contains(name, sub) ==
    \E i \in 1..(Len(name) - Len(sub) + 1) :
        SubSeq(name, i, i + Len(sub) - 1) = sub

(* 'id' *)
IdSubstring == <<105, 100>>

categorical_dtypes == {"object", "category", "string"}
number_dtypes == {"int64", "float64"}


-----------------------------------------------------------------------------
(* Penalties and fixed limits of compute_quality_flags *)

InitialScore == 100
ConstantPenalty == 10
HighCardinalityPenalty == 5
IdDuplicatePenalty == 15
ZeroPenalty == 8
OutlierPenalty == 7
ImbalancePenalty == 6
MinOutlierValues == 10

(* 0.05, the fixed share of outliers above which a column is flagged *)
OutlierShare == Rat(1, 20)

-----------------------------------------------------------------------------
(* Table primitives *)

(* len(df) *)
nrows(t) == IF Len(t) = 0 THEN 0 ELSE Len(t[1].cells)

column_name(col) == col.name

(* df.select_dtypes(include=categorical_dtypes).columns *)
categorical_cols(t) == SelectSeq(t, LAMBDA c : c.dtype \in categorical_dtypes)

(* df.select_dtypes(include=[np.number]).columns *)
numeric_cols(t) == SelectSeq(t, LAMBDA c : c.dtype \in number_dtypes)

(* Variant: the name is searched without lower(). *)
id_cols_case_sensitive(t) == SelectSeq(t, LAMBDA c : contains(c.name, IdSubstring))

(* [col for col in df.columns if 'id' in col.lower()] *)
id_cols(t) == SelectSeq(t, LAMBDA c : contains(lower(c.name), IdSubstring))

(* df.isnull().sum().sum() *)
RECURSIVE total_missing(_)
total_missing(t) ==
    IF t = <<>> THEN 0 ELSE null_count(Head(t).cells) + total_missing(Tail(t))

(* df.duplicated().sum(): rows equal, in every column, to an earlier row *)
duplicated_rows(t) ==
    LET row(i) == [c \in 1..Len(t) |-> t[c].cells[i]]
    IN  Cardinality({i \in 1..nrows(t) : \E j \in 1..(i - 1) : row(j) = row(i)})

-----------------------------------------------------------------------------
(* compute_basic_stats *)

compute_basic_stats(t) ==
    [rows    |-> nrows(t),
     columns |-> Map(t, column_name),
     dtypes  |-> [nm \in {t[i].name : i \in 1..Len(t)} |->
                    (CHOOSE c \in Range(t) : c.name = nm).dtype]]

-----------------------------------------------------------------------------
(* compute_quality_flags, pass by pass *)

results0 ==
    [quality_score             |-> InitialScore,
     has_constant_columns      |-> FALSE,
     has_high_cardinality      |-> FALSE,
     has_id_duplicates         |-> FALSE,
     has_many_zeros            |-> FALSE,
     has_outliers              |-> FALSE,
     has_imbalanced_categories |-> FALSE,
     constant_columns          |-> <<>>,
     high_cardinality_cols     |-> <<>>,
     high_cardinality_details  |-> <<>>,
     duplicate_id_info         |-> <<>>,
     zero_columns              |-> <<>>,
     outlier_columns           |-> <<>>,
     imbalanced_columns        |-> <<>>,
     columns_with_missing      |-> <<>>,
     missing_count             |-> 0,
     duplicate_count           |-> 0]

(* Variant: a column without any value counts as constant. *)
IsConstantAtMostOne(col) == nunique(col.cells) <= 1

(* 1. constant columns *)
IsConstant(col) == nunique(col.cells) = 1

ConstantPass(r) ==
    LET hit == SelectSeq(df, IsConstant)
    IN  [r EXCEPT !.has_constant_columns = @ \/ Len(hit) > 0,
                  !.constant_columns = @ \o Map(hit, column_name),
                  !.quality_score = @ - ConstantPenalty * Len(hit)]

(* Variant: >= in place of >. *)
IsHighCardinalityInclusive(col) == nunique(col.cells) >= high_cardinality_threshold

(* 2. high-cardinality categorical columns *)
IsHighCardinality(col) == nunique(col.cells) > high_cardinality_threshold

HighCardinalityDetail(col) ==
    [column       |-> col.name,
     unique_count |-> nunique(col.cells),
     threshold    |-> high_cardinality_threshold]

HighCardinalityPass(r) ==
    LET hit == SelectSeq(categorical_cols(df), IsHighCardinality)
    IN  [r EXCEPT !.has_high_cardinality = @ \/ Len(hit) > 0,
                  !.high_cardinality_cols = @ \o Map(hit, column_name),
                  !.high_cardinality_details = @ \o Map(hit, HighCardinalityDetail),
                  !.quality_score = @ - HighCardinalityPenalty * Len(hit)]

(* 3. duplicates in ID-named columns *)
HasIdDuplicates(col) == duplicated_any(col.cells)

IdDuplicateEntry(col) ==
    [duplicate_count |-> duplicated_sum(col.cells),
     total           |-> Len(col.cells)]

IdDuplicatePass(r) ==
    LET hit == SelectSeq(id_cols(df), HasIdDuplicates)
    IN  [r EXCEPT !.has_id_duplicates = @ \/ Len(hit) > 0,
                  !.duplicate_id_info =
                      [nm \in {hit[i].name : i \in 1..Len(hit)} |->
                          IdDuplicateEntry(CHOOSE c \in Range(hit) : c.name = nm)],
                  !.quality_score = @ - IdDuplicatePenalty * Len(hit)]

(* Variant: the ratio without the len(df) > 0 guard. *)
zero_ratio_unguarded(col) == PyDiv(zero_count(col.cells), nrows(df))

(* 4. zero-heavy numeric columns *)
zero_ratio(col) ==
    IF nrows(df) > 0 THEN PyDiv(zero_count(col.cells), nrows(df)) ELSE OfInt(0)

(* Variant: >= in place of >. *)
HasManyZerosInclusive(col) == ~RLess(zero_ratio(col), zero_threshold)

HasManyZeros(col) == RLess(zero_threshold, zero_ratio(col))

(* Variant: the entry does not record the threshold. *)
ZeroEntryNoThreshold(col) ==
    [column     |-> col.name,
     zero_ratio |-> zero_ratio(col)]

ZeroEntry(col) ==
    [column     |-> col.name,
     zero_ratio |-> zero_ratio(col),
     threshold  |-> zero_threshold]

(* Variant: the entries are appended without raising the flag. *)
ZeroPassNoFlag(r) ==
    LET hit == SelectSeq(numeric_cols(df), HasManyZeros)
    IN  [r EXCEPT !.zero_columns = @ \o Map(hit, ZeroEntry),
                  !.quality_score = @ - ZeroPenalty * Len(hit)]

ZeroPass(r) ==
    LET hit == SelectSeq(numeric_cols(df), HasManyZeros)
    IN  [r EXCEPT !.has_many_zeros = @ \/ Len(hit) > 0,
                  !.zero_columns = @ \o Map(hit, ZeroEntry),
                  !.quality_score = @ - ZeroPenalty * Len(hit)]

(* 5. columns with missing values: reported, no penalty *)
(* missing_count / len(df) if len(df) > 0 else 0.0 *)
missing_ratio(col) ==
    IF nrows(df) > 0 THEN PyDiv(null_count(col.cells), nrows(df)) ELSE OfInt(0)

HasMissing(col) == RLess(min_missing_share, missing_ratio(col))

MissingEntry(col) ==
    [column        |-> col.name,
     missing_ratio |-> missing_ratio(col),
     threshold     |-> min_missing_share]

(* Variant: every reported column costs a penalty. *)
MissingPassPenalised(r) ==
    LET hit == SelectSeq(df, HasMissing)
    IN  [r EXCEPT !.columns_with_missing = @ \o Map(hit, MissingEntry),
                  !.quality_score = @ - HighCardinalityPenalty * Len(hit)]

MissingPass(r) ==
    LET hit == SelectSeq(df, HasMissing)
    IN  [r EXCEPT !.columns_with_missing = @ \o Map(hit, MissingEntry)]

(* Variant: one value fewer is enough. *)
EnoughValuesOffByOne(col) == Len(dropna(col.cells)) >= MinOutlierValues - 1

(* 6. outliers by the IQR rule, numeric columns with enough values *)
EnoughValues(col) == Len(dropna(col.cells)) >= MinOutlierValues

q1(col) == quantile(col.cells, 1)
q3(col) == quantile(col.cells, 3)

(* Variant: iqr >= 0 in place of iqr > 0. *)
HasSpreadOrFlat(iqr) == ~RLess(iqr, OfInt(0))

(* if iqr > 0 *)
HasSpread(iqr) == RLess(OfInt(0), iqr)

(* ((df[col] < lower_bound) | (df[col] > upper_bound)).sum(): a missing   *)
(* cell compares false on both sides                                      *)
outliers_count(col, lo, hi) ==
    Count(col.cells, LAMBDA v : /\ ~isnull(v)
                                /\ \/ RLess(OfInt(v), lo)
                                   \/ RLess(hi, OfInt(v)))

(* The quartiles, fences and outlier counts of a column (lines 143-153). *)
OutlierStats(col) ==
    LET lowq == q1(col)
        uppq == q3(col)
        iqr  == RSub(uppq, lowq)
        lo   == RSub(lowq, RMul(outlier_threshold, iqr))
        hi   == RAdd(uppq, RMul(outlier_threshold, iqr))
        cnt  == outliers_count(col, lo, hi)
    IN  [iqr            |-> iqr,
         lower_bound    |-> lo,
         upper_bound    |-> hi,
         outliers_count |-> cnt,
         outliers_ratio |-> Rat(cnt, Len(col.cells))]

HasOutliers(col) ==
    /\ EnoughValues(col)
    /\ LET st == OutlierStats(col)
       IN  /\ HasSpread(st.iqr)
           /\ RLess(OutlierShare, st.outliers_ratio)

OutlierEntry(col) ==
    LET st == OutlierStats(col)
    IN  [column         |-> col.name,
         outliers_count |-> st.outliers_count,
         outliers_ratio |-> st.outliers_ratio,
         lower_bound    |-> st.lower_bound,
         upper_bound    |-> st.upper_bound]

OutlierPass(r) ==
    LET hit == SelectSeq(numeric_cols(df), HasOutliers)
    IN  [r EXCEPT !.has_outliers = @ \/ Len(hit) > 0,
                  !.outlier_columns = @ \o Map(hit, OutlierEntry),
                  !.quality_score = @ - OutlierPenalty * Len(hit)]

(* 7. imbalanced categorical columns *)
(* value_counts(normalize=True): the share of each non-missing value among *)
(* the non-missing cells, most frequent first                              *)
value_count(col, v) == Count(col.cells, LAMBDA w : w = v)

top_count(col) ==
    LET vs == Range(col.cells) \ {NaN}
    IN  CHOOSE k \in {value_count(col, v) : v \in vs} :
            \A v \in vs : value_count(col, v) <= k

dominant_ratio(col) == Rat(top_count(col), Len(dropna(col.cells)))

(* Variant: single-valued columns are not left out. *)
IsImbalancedNoGuard(col) ==
    /\ nunique(col.cells) >= 1
    /\ RLess(imbalance_threshold, dominant_ratio(col))

IsImbalanced(col) ==
    /\ nunique(col.cells) > 1
    /\ RLess(imbalance_threshold, dominant_ratio(col))

(* value_counts.index[0]: a most frequent value; the order among equally  *)
(* frequent values is left to the library                                 *)
DominantCandidates(col) ==
    {v \in Range(col.cells) \ {NaN} : value_count(col, v) = top_count(col)}

RECURSIVE DominantChoices(_)
DominantChoices(cols) ==
    IF cols = <<>> THEN {<<>>}
    ELSE {<<d>> \o rest : d \in DominantCandidates(Head(cols)),
                          rest \in DominantChoices(Tail(cols))}

ImbalanceEntry(col, dominant) ==
    [column            |-> col.name,
     dominant_category |-> dominant,
     dominant_ratio    |-> dominant_ratio(col),
     threshold         |-> imbalance_threshold,
     unique_categories |-> nunique(col.cells)]

ImbalancedCols(t) == SelectSeq(categorical_cols(t), IsImbalanced)

ImbalancePass(r, dominants) ==
    LET hit == ImbalancedCols(df)
    IN  [r EXCEPT !.has_imbalanced_categories = @ \/ Len(hit) > 0,
                  !.imbalanced_columns =
                      @ \o [i \in 1..Len(hit) |-> ImbalanceEntry(hit[i], dominants[i])],
                  !.quality_score = @ - ImbalancePenalty * Len(hit)]

(* dataset-level counts *)
CountsStep(r) ==
    [r EXCEPT !.missing_count = total_missing(df),
              !.duplicate_count = duplicated_rows(df)]

(* Variant: min(100, score) without max(0, ...). *)
LimitScoreNoFloor(score) == Min(InitialScore, score)

(* int(max(0, min(100, quality_score))) *)
LimitScore(score) == Max(0, Min(InitialScore, score))

LimitStep(r) == [r EXCEPT !.quality_score = LimitScore(@)]

(* The report after the seven passes, its score not yet clamped. *)
Passes(dominants) ==
    ImbalancePass(
      OutlierPass(
        MissingPass(
          ZeroPass(
            IdDuplicatePass(
              HighCardinalityPass(
                ConstantPass(results0)))))), dominants)

(* ensure_python_types changes the types of the values, not the values. *)
compute_quality_flags(dominants) == LimitStep(CountsStep(Passes(dominants)))

(* A ratio of Python ints whose denominator is 0 raises. *)
Raises ==
    \/ \E i \in 1..Len(df) :
          /\ df[i].dtype \in number_dtypes
          /\ zero_ratio(df[i]) = ZeroDivisionError
    \/ \E i \in 1..Len(df) : missing_ratio(df[i]) = ZeroDivisionError

-----------------------------------------------------------------------------
(* Inputs *)

(* "id", "User_ID", "val", "di" *)
Names == {<<105, 100>>, <<85, 115, 101, 114, 95, 73, 68>>,
          <<118, 97, 108>>, <<100, 105>>}

RECURSIVE SeqsOfLen(_, _)
SeqsOfLen(S, n) ==
    IF n = 0 THEN {<<>>}
    ELSE {<<x>> \o rest : x \in S, rest \in SeqsOfLen(S, n - 1)}

(* The cells a column of each dtype can hold: int64 and bool columns have  *)
(* no missing cells.                                                       *)
CellsOf(dtype, vals, n) ==
    CASE dtype = "bool"  -> SeqsOfLen({0, 1}, n)
      [] dtype = "int64" -> SeqsOfLen(vals, n)
      [] OTHER           -> SeqsOfLen(vals \cup {NaN}, n)

Dtypes == {"int64", "float64", "object", "bool"}

Fractions(den) == {Rat(k, den) : k \in 0..den}

NoReport == [quality_score |-> InitialScore]

(* No HTTP request is being served. *)
NoRequest == [pc |-> "none"]

Start(t, hc, zt, mm, ot, it) ==
    /\ df = t
    /\ high_cardinality_threshold = hc
    /\ zero_threshold = zt
    /\ min_missing_share = mm
    /\ outlier_threshold = ot
    /\ imbalance_threshold = it
    /\ pc = "loaded"
    /\ stats = <<>>
    /\ quality = NoReport
    /\ raised = "none"
    /\ req = NoRequest

(* Small tables: no column, or one column of any dtype with up to MaxRows *)
(* rows of every possible content.                                        *)
SmallTables ==
    {<<>>} \cup
    UNION {{<<[name |-> nm, dtype |-> dt, cells |-> cs]>> :
                nm \in Names,
                cs \in UNION {CellsOf(dt, 0..MaxVal, n) : n \in 0..MaxRows}} :
           dt \in Dtypes}

DefaultOutlierThreshold == Rat(3, 2)

Init ==
    \E t \in SmallTables, hc \in 0..(MaxVal + 1),
       zt \in {Rat(3, 10), Rat(1, 2)}, mm \in {Rat(1, 10), Rat(1, 2)},
       it \in {Rat(1, 2), Rat(9, 10)} :
        Start(t, hc, zt, mm, DefaultOutlierThreshold, it)

(* Wide tables: up to MaxWideCols columns of WideRows rows, each of one of *)
(* five kinds; column i is named "id<i>" or "v<i>".                        *)
IdName(i) == <<105, 100, 48 + i>>
PlainName(i) == <<118, 48 + i>>

WideColumn(kind, i) ==
    LET rows == 1..WideRows
    IN  CASE kind = "id_zeros" ->
               [name |-> IdName(i), dtype |-> "int64", cells |-> [r \in rows |-> 0]]
          [] kind = "distinct" ->
               [name |-> PlainName(i), dtype |-> "int64", cells |-> [r \in rows |-> r]]
          [] kind = "outlier" ->
               [name |-> PlainName(i), dtype |-> "float64",
                cells |-> [r \in rows |-> IF r = WideRows THEN 100 * r
                                          ELSE (r + 1) \div 2]]
          [] kind = "id_labels" ->
               [name |-> IdName(i), dtype |-> "object",
                cells |-> [r \in rows |-> IF r = WideRows - 1 THEN 1 ELSE 0]]
          [] kind = "missing" ->
               [name |-> PlainName(i), dtype |-> "float64",
                cells |-> [r \in rows |-> IF r <= 2 THEN NaN ELSE r]]

WideKinds == {"id_zeros", "distinct", "outlier", "id_labels", "missing"}

WideTables ==
    UNION {{[i \in 1..n |-> WideColumn(ks[i], i)] : ks \in SeqsOfLen(WideKinds, n)} :
           n \in 0..MaxWideCols}

InitWide ==
    \E t \in WideTables, hc \in {1, 50}, it \in {Rat(1, 2), Rat(9, 10)} :
        Start(t, hc, Rat(3, 10), Rat(1, 10), DefaultOutlierThreshold, it)

(* Tall tables: one column whose cells are a run of each value of a short *)
(* list followed by a run of missing cells.                                *)
Runs(vals, n, a, b, c) ==
    [r \in 1..n |-> IF r <= a THEN vals[1]
                    ELSE IF r <= b THEN vals[2]
                    ELSE IF r <= c THEN vals[3]
                    ELSE NaN]

RunCells(vals, n, nullable) ==
    {Runs(vals, n, a, b, c) :
        a \in 0..n, b \in 0..n, c \in IF nullable THEN 0..n ELSE {n}}

TallNumericTables ==
    UNION {{<<[name |-> <<118, 97, 108>>, dtype |-> dt, cells |-> cs]>> :
                cs \in UNION {RunCells(<<0, 1, 9>>, n, dt = "float64") :
                                n \in (MinOutlierValues - 1)..MaxTallRows}} :
           dt \in number_dtypes}

TallObjectTables ==
    {<<[name |-> <<118, 97, 108>>, dtype |-> "object", cells |-> cs]>> :
        cs \in RunCells(<<0, 1, 2>>, ImbalanceRows, TRUE)}

InitTall ==
    \/ \E t \in TallNumericTables,
          zt \in {Rat(1, 2), Rat(7, 10), Rat(4, 5)},
          ot \in {Rat(0 - 1, 2), Rat(0, 1), Rat(1, 2), Rat(3, 2)} :
           Start(t, 50, zt, Rat(1, 10), ot, Rat(9, 10))
    \/ \E t \in TallObjectTables, hc \in {1, 2},
          it \in {Rat(1, 2), Rat(9, 10), Rat(19, 20)} :
           Start(t, hc, Rat(3, 10), Rat(1, 10), DefaultOutlierThreshold, it)

-----------------------------------------------------------------------------
(* Operations, in the order of cli.py *)

ComputeBasicStats ==
    /\ pc = "loaded"
    /\ stats' = compute_basic_stats(df)
    /\ pc' = "stats"
    /\ UNCHANGED <<df, config, quality, raised, req>>

ComputeQualityFlags ==
    /\ pc = "stats"
    /\ pc' = "done"
    /\ IF Raises
         THEN raised' = "ZeroDivisionError" /\ UNCHANGED quality
         ELSE /\ \E dominants \in DominantChoices(ImbalancedCols(df)) :
                    quality' = compute_quality_flags(dominants)
              /\ UNCHANGED raised
    /\ UNCHANGED <<df, config, stats, req>>

Next == ComputeBasicStats \/ ComputeQualityFlags

Spec == Init /\ [][Next]_vars
SpecWide == InitWide /\ [][Next]_vars
SpecTall == InitTall /\ [][Next]_vars

Returned == pc = "done" /\ raised = "none"

-----------------------------------------------------------------------------
(* The file-upload handlers of api.py: compute_quality_from_csv and       *)
(* compute_quality_flags_from_csv.  req holds the request being served:   *)
(* its handler, the uploaded file name (ASCII codes), the position in the *)
(* handler, whether the temporary file exists on disk (tmp_file), whether *)
(* one was ever created (created), whether the local tmp_path is bound,   *)
(* whether the loader and the analysis were entered, the exception caught *)
(* (error), and the outcome: status, detail, body.  df is the table the   *)
(* uploaded content parses to.                                            *)

Handlers == {"compute_quality_from_csv", "compute_quality_flags_from_csv"}

(* '.csv' *)
CsvSuffix == <<46, 99, 115, 118>>

(* Variant: the suffix is compared without regard to letter case. *)
endswith_any_case(name, suffix) ==
    /\ Len(name) >= Len(suffix)
    /\ SubSeq(lower(name), Len(name) - Len(suffix) + 1, Len(name)) = suffix

(* str.endswith *)
endswith(name, suffix) ==
    /\ Len(name) >= Len(suffix)
    /\ SubSeq(name, Len(name) - Len(suffix) + 1, Len(name)) = suffix

(* "a.csv", "a.CSV", "a.txt", ".csv", "csv", "csv.a" *)
Filenames == {<<97, 46, 99, 115, 118>>, <<97, 46, 67, 83, 86>>,
              <<97, 46, 116, 120, 116>>, <<46, 99, 115, 118>>,
              <<99, 115, 118>>, <<99, 115, 118, 46, 97>>}

(* The detail of the 400 and the prefix of the detail of the 500 (the     *)
(* source texts are Russian: "only CSV files are supported", "error       *)
(* while processing the file: ").                                         *)
OnlyCsvDetail == <<"only CSV files are supported">>
ProcessingErrorPrefix == "error while processing the file: "

NoBody == [quality_score |-> 0 - 1]

(* int(ratio * 100); exact for the ratios of the tables explored *)
percent(ratio) == (100 * ratio.n) \div ratio.d

(* df.shape and the dataset ratios (lines 95-100 and 146-151) *)
n_rows(t) == nrows(t)
n_cols(t) == Len(t)

table_missing_ratio(t) ==
    IF n_rows(t) * n_cols(t) > 0
    THEN PyDiv(total_missing(t), n_rows(t) * n_cols(t)) ELSE OfInt(0)

table_duplicate_ratio(t) ==
    IF n_rows(t) > 0 THEN PyDiv(duplicated_rows(t), n_rows(t)) ELSE OfInt(0)

(* compute_quality: the seminar's score from the dataset metrics *)
compute_quality(rows, cols, missing, duplicate) ==
    LET too_few_rows        == rows < 100
        too_many_missing    == RLess(Rat(3, 10), missing)
        too_many_duplicates == RLess(Rat(1, 10), duplicate)
        score == 100 - (IF too_few_rows THEN 20 ELSE 0)
                     - (IF too_many_missing THEN Min(percent(missing), 40) ELSE 0)
                     - (IF too_many_duplicates THEN Min(percent(duplicate), 30) ELSE 0)
    IN  [quality_score |-> score,
         ok_for_model  |-> score >= 70,
         flags    |-> [too_few_rows        |-> too_few_rows,
                       too_many_missing    |-> too_many_missing,
                       too_many_duplicates |-> too_many_duplicates],
         metadata |-> [n_rows          |-> rows,
                       n_cols          |-> cols,
                       missing_ratio   |-> missing,
                       duplicate_ratio |-> duplicate]]

(* The response of compute_quality_flags_from_csv built from the report   *)
(* quality_info of compute_quality_flags (lines 167-204).                 *)
flags_response(t, quality_info) ==
    [quality_score |-> quality_info.quality_score,
     ok_for_model  |-> quality_info.quality_score >= 70,
     flags |->
        [too_few_rows        |-> n_rows(t) < 100,
         too_many_missing    |-> RLess(Rat(3, 10), table_missing_ratio(t)),
         too_many_duplicates |-> RLess(Rat(1, 10), table_duplicate_ratio(t)),
         has_constant_columns              |-> quality_info.has_constant_columns,
         has_high_cardinality_categoricals |-> quality_info.has_high_cardinality,
         has_suspicious_id_duplicates      |-> quality_info.has_id_duplicates,
         has_many_zero_values              |-> quality_info.has_many_zeros],
     details |->
        [constant_columns         |-> quality_info.constant_columns,
         high_cardinality_columns |-> quality_info.high_cardinality_cols,
         high_cardinality_details |-> quality_info.high_cardinality_details,
         duplicate_id_info        |-> quality_info.duplicate_id_info,
         zero_columns             |-> quality_info.zero_columns,
         columns_with_missing     |-> quality_info.columns_with_missing],
     metadata |->
        [n_rows          |-> n_rows(t),
         n_cols          |-> n_cols(t),
         missing_ratio   |-> table_missing_ratio(t),
         duplicate_ratio |-> table_duplicate_ratio(t),
         missing_count   |-> total_missing(t),
         duplicate_count |-> duplicated_rows(t),
         parameters |-> [high_cardinality_threshold |-> high_cardinality_threshold,
                         zero_threshold             |-> zero_threshold,
                         min_missing_share          |-> min_missing_share]]]

(* The tables a CSV file can parse to: at least one column. *)
ApiTables == SmallTables \ {<<>>}

StartRequest(t, h, name) ==
    /\ df = t
    /\ high_cardinality_threshold = 1
    /\ zero_threshold = Rat(3, 10)
    /\ min_missing_share = Rat(1, 10)
    /\ outlier_threshold = DefaultOutlierThreshold
    /\ imbalance_threshold = Rat(9, 10)
    /\ pc = "http"
    /\ stats = <<>>
    /\ quality = NoReport
    /\ raised = "none"
    /\ req = [handler  |-> h,      filename |-> name,   pc       |-> "check",
              tmp_file |-> FALSE,  created  |-> FALSE,  tmp_path |-> FALSE,
              loaded   |-> FALSE,  analysed |-> FALSE,  error    |-> "none",
              status   |-> 0,      detail   |-> <<>>,   body     |-> NoBody]

InitApi ==
    \E t \in ApiTables, h \in Handlers, name \in Filenames :
        StartRequest(t, h, name)

(* An exception leaves the try body for the except clause. *)
Fail(r, e) == [r EXCEPT !.error = e, !.pc = "except"]

(* if not file.filename.endswith('.csv'): raise HTTPException(400) *)
CheckFilename ==
    /\ req.pc = "check"
    /\ req' = IF endswith(req.filename, CsvSuffix)
                THEN [req EXCEPT !.pc = "create"]
                ELSE [req EXCEPT !.status = 400, !.detail = OnlyCsvDetail,
                                 !.pc = "done"]
    /\ UNCHANGED <<df, config, pc, stats, quality, raised>>

(* with tempfile.NamedTemporaryFile(suffix='.csv', delete=False) as tmp *)
CreateTempFile ==
    /\ req.pc = "create"
    /\ \/ req' = [req EXCEPT !.tmp_file = TRUE, !.created = TRUE, !.pc = "read"]
       \/ req' = Fail(req, "OSError")
    /\ UNCHANGED <<df, config, pc, stats, quality, raised>>

(* content = await file.read(); on an exception the with block closes the *)
(* file, which stays on disk (delete=False)                               *)
ReadUpload ==
    /\ req.pc = "read"
    /\ \/ req' = [req EXCEPT !.pc = "write"]
       \/ req' = Fail(req, "ReadError")
    /\ UNCHANGED <<df, config, pc, stats, quality, raised>>

(* tmp.write(content); tmp_path = tmp.name *)
WriteTempFile ==
    /\ req.pc = "write"
    /\ \/ req' = [req EXCEPT !.tmp_path = TRUE, !.pc = "load"]
       \/ req' = Fail(req, "OSError")
    /\ UNCHANGED <<df, config, pc, stats, quality, raised>>

(* df = pd.read_csv(tmp_path) / df = load_data(tmp_path) *)
LoadTable ==
    /\ req.pc = "load"
    /\ \/ req' = [req EXCEPT !.loaded = TRUE, !.pc = "analyse"]
       \/ \E e \in {"ParserError", "EmptyDataError"} :
              req' = Fail([req EXCEPT !.loaded = TRUE], e)
    /\ UNCHANGED <<df, config, pc, stats, quality, raised>>

(* lines 95-108: the metrics and return compute_quality(...) *)
AnalyseMetrics ==
    /\ req.pc = "analyse"
    /\ req.handler = "compute_quality_from_csv"
    /\ LET missing   == table_missing_ratio(df)
           duplicate == table_duplicate_ratio(df)
           entered   == [req EXCEPT !.analysed = TRUE]
       IN  \/ req' = IF ZeroDivisionError \in {missing, duplicate}
                       THEN Fail(entered, "ZeroDivisionError")
                       ELSE [entered EXCEPT
                               !.body = compute_quality(n_rows(df), n_cols(df),
                                                        missing, duplicate),
                               !.status = 200, !.pc = "finally"]
           \/ req' = Fail(entered, "MemoryError")
    /\ UNCHANGED <<df, config, pc, stats, quality, raised>>

(* lines 146-206: the metrics, compute_quality_flags and the response *)
AnalyseFlags ==
    /\ req.pc = "analyse"
    /\ req.handler = "compute_quality_flags_from_csv"
    /\ LET entered == [req EXCEPT !.analysed = TRUE]
       IN  \/ IF \/ ZeroDivisionError \in {table_missing_ratio(df),
                                           table_duplicate_ratio(df)}
                 \/ Raises
                THEN /\ req' = Fail(entered, "ZeroDivisionError")
                     /\ raised' = "ZeroDivisionError"
                     /\ UNCHANGED quality
                ELSE /\ \E dominants \in DominantChoices(ImbalancedCols(df)) :
                           quality' = compute_quality_flags(dominants)
                     /\ req' = [entered EXCEPT
                                  !.body = flags_response(df, quality'),
                                  !.status = 200, !.pc = "finally"]
                     /\ UNCHANGED raised
           \/ /\ req' = Fail(entered, "MemoryError")
              /\ UNCHANGED <<quality, raised>>
    /\ UNCHANGED <<df, config, pc, stats>>

(* except Exception as e: raise HTTPException(500, detail=f"...{str(e)}") *)
CatchException ==
    /\ req.pc = "except"
    /\ req' = [req EXCEPT !.status = 500,
                          !.detail = <<ProcessingErrorPrefix, req.error>>,
                          !.body = NoBody,
                          !.pc = "finally"]
    /\ UNCHANGED <<df, config, pc, stats, quality, raised>>

(* finally: if 'tmp_path' in locals(): Path(tmp_path).unlink(missing_ok=True) *)
Cleanup ==
    /\ req.pc = "finally"
    /\ req' = [req EXCEPT !.tmp_file = IF req.tmp_path THEN FALSE ELSE @,
                          !.pc = "done"]
    /\ UNCHANGED <<df, config, pc, stats, quality, raised>>

NextApi ==
    \/ CheckFilename
    \/ CreateTempFile
    \/ ReadUpload
    \/ WriteTempFile
    \/ LoadTable
    \/ AnalyseMetrics
    \/ AnalyseFlags
    \/ CatchException
    \/ Cleanup

SpecApi == InitApi /\ [][NextApi]_vars


-----------------------------------------------------------------------------
(* Properties *)

(* The score the six penalised findings of a report add up to. *)
PenalisedScore(q) ==
    100 - 10 * Len(q.constant_columns)
        - 5 * Len(q.high_cardinality_cols)
        - 15 * Cardinality(DOMAIN q.duplicate_id_info)
        - 8 * Len(q.zero_columns)
        - 7 * Len(q.outlier_columns)
        - 6 * Len(q.imbalanced_columns)

(* C1: whatever the table and the thresholds, the returned quality_score   *)
(* is an integer between 0 and 100 inclusive.                              *)
C1_ScoreInRange ==
    Returned => quality.quality_score \in 0..100

(* C1 witness: a report whose penalties add up to more than 100. *)
C1_Witness ==
    /\ Returned
    /\ PenalisedScore(quality) < 0
    /\ quality.quality_score = 0

(* C2: the returned score is 100 - 10 C - 5 H - 15 D - 8 Z - 7 O - 6 I     *)
(* clamped to [0, 100], C, H, D, Z, O, I being the numbers of columns      *)
(* flagged constant, high-cardinality, ID-duplicate, zero-heavy, outlier   *)
(* and imbalanced; columns_with_missing, missing_count and duplicate_count *)
(* do not enter it.                                                        *)
C2_ScoreFormula ==
    Returned =>
        LET raw == PenalisedScore(quality)
        IN  quality.quality_score =
                (IF raw < 0 THEN 0 ELSE IF raw > 100 THEN 100 ELSE raw)

(* C2 witness: a report with per-column missing findings, missing cells,   *)
(* duplicate rows and penalised findings, whose score is strictly inside   *)
(* the range.                                                              *)
C2_Witness ==
    /\ Returned
    /\ quality.columns_with_missing # <<>>
    /\ quality.missing_count > 0
    /\ quality.duplicate_count > 0
    /\ quality.has_outliers
    /\ quality.has_imbalanced_categories
    /\ quality.has_id_duplicates
    /\ quality.quality_score \in 1..99

(* C3: on a table with no rows (with or without columns) the analysis does *)
(* not raise, divides by no zero row count, and returns score 100, every   *)
(* flag false, every findings collection empty and both counts 0; the      *)
(* basic stats report 0 rows and, without columns, no column.              *)
C3_DegenerateTable ==
    (pc = "done" /\ nrows(df) = 0) =>
        /\ raised = "none"
        /\ quality.quality_score = 100
        /\ ~quality.has_constant_columns
        /\ ~quality.has_high_cardinality
        /\ ~quality.has_id_duplicates
        /\ ~quality.has_many_zeros
        /\ ~quality.has_outliers
        /\ ~quality.has_imbalanced_categories
        /\ quality.constant_columns = <<>>
        /\ quality.high_cardinality_cols = <<>>
        /\ quality.high_cardinality_details = <<>>
        /\ DOMAIN quality.duplicate_id_info = {}
        /\ quality.zero_columns = <<>>
        /\ quality.outlier_columns = <<>>
        /\ quality.imbalanced_columns = <<>>
        /\ quality.columns_with_missing = <<>>
        /\ quality.missing_count = 0
        /\ quality.duplicate_count = 0
        /\ stats.rows = 0
        /\ (Len(df) = 0 => stats.columns = <<>>)

(* C3 witness: the analysis has run on a numeric ID column without rows. *)
C3_Witness ==
    /\ pc = "done"
    /\ Len(df) = 1
    /\ df[1].cells = <<>>
    /\ df[1].dtype \in number_dtypes
    /\ df[1].name = <<105, 100>>
    /\ zero_threshold = Rat(3, 10)

-----------------------------------------------------------------------------
Columns == {df[i] : i \in 1..Len(df)}

(* The distinct contents of the non-missing cells of a column. *)
Values(col) == {col.cells[i] : i \in 1..Len(col.cells)} \ {NaN}

HasMissingCell(col) == \E i \in 1..Len(col.cells) : col.cells[i] = NaN

(* Every row of the column holds the same value, no cell is missing. *)
SingleValueInAllRows(col) ==
    /\ Len(col.cells) >= 1
    /\ ~HasMissingCell(col)
    /\ \A i, j \in 1..Len(col.cells) : col.cells[i] = col.cells[j]

(* C4 as stated: a column is in constant_columns exactly when it holds a   *)
(* single value in all its rows (a column with one value in some rows and  *)
(* missing cells in the others does not), and has_constant_columns is      *)
(* false with an empty list when there is no such column.                  *)
C4_Original ==
    Returned =>
        /\ \A col \in Columns :
              (col.name \in Range(quality.constant_columns))
                  <=> SingleValueInAllRows(col)
        /\ (~\E col \in Columns : SingleValueInAllRows(col)) =>
              (~quality.has_constant_columns /\ quality.constant_columns = <<>>)

(* C4 amended: a column is in constant_columns exactly when its            *)
(* non-missing cells hold exactly one distinct value, missing cells being  *)
(* ignored; has_constant_columns is false with an empty list when there is *)
(* no such column.                                                         *)
C4_ConstantIgnoringMissing ==
    Returned =>
        LET one(col) == \E v \in Values(col) : Values(col) = {v}
        IN  /\ \A col \in Columns :
                  (col.name \in Range(quality.constant_columns)) <=> one(col)
            /\ (~\E col \in Columns : one(col)) =>
                  (~quality.has_constant_columns /\ quality.constant_columns = <<>>)

(* C4 witness: a column with one value in some rows and missing cells in   *)
(* the others has been reported as constant.                               *)
C4_Witness ==
    /\ Returned
    /\ \E col \in Columns :
          /\ HasMissingCell(col)
          /\ Cardinality(Values(col)) = 1
          /\ col.name \in Range(quality.constant_columns)
          /\ quality.has_constant_columns

(* The name holds "id" in some letter case. *)
IdNamed(col) ==
    \E i \in 1..(Len(col.name) - 1) :
        col.name[i] \in {105, 73} /\ col.name[i + 1] \in {100, 68}

(* C5 as stated, a missing cell not being a value: an ID-named column is   *)
(* in duplicate_id_info iff one of its values repeats, the recorded        *)
(* duplicate_count is the row count minus the distinct-value count, and no *)
(* other column is entered.                                                *)
C5_Original ==
    Returned =>
        \A col \in Columns :
            LET repeats == \E i, j \in 1..Len(col.cells) :
                              i # j /\ col.cells[i] = col.cells[j] /\ col.cells[i] # NaN
                listed  == col.name \in DOMAIN quality.duplicate_id_info
            IN  /\ listed <=> (IdNamed(col) /\ repeats)
                /\ listed => quality.duplicate_id_info[col.name].duplicate_count
                                = Len(col.cells) - Cardinality(Values(col))

(* C5 amended: an ID-named column is in duplicate_id_info iff the content  *)
(* of one of its cells repeats, two missing cells counting as a repeat;    *)
(* the recorded duplicate_count is the row count minus the number of       *)
(* distinct cell contents, the missing cell counting as one content; no    *)
(* other column is entered.                                                *)
C5_IdDuplicates ==
    Returned =>
        \A col \in Columns :
            LET repeats  == \E i, j \in 1..Len(col.cells) :
                               i # j /\ col.cells[i] = col.cells[j]
                contents == Cardinality(Values(col))
                              + (IF HasMissingCell(col) THEN 1 ELSE 0)
                listed   == col.name \in DOMAIN quality.duplicate_id_info
            IN  /\ listed <=> (IdNamed(col) /\ repeats)
                /\ listed => quality.duplicate_id_info[col.name].duplicate_count
                                = Len(col.cells) - contents
                /\ quality.has_id_duplicates
                      <=> (DOMAIN quality.duplicate_id_info # {})

(* C5 witness: an upper-case ID column with a repeated value and a missing *)
(* cell has been entered with one duplicate.                               *)
C5_Witness ==
    /\ Returned
    /\ \E col \in Columns :
          /\ col.name = <<85, 115, 101, 114, 95, 73, 68>>
          /\ col.cells = <<1, NaN, 1>>
          /\ quality.duplicate_id_info[col.name].duplicate_count = 1
          /\ quality.has_id_duplicates

(* C6: a numeric column has an entry in zero_columns iff its number of     *)
(* cells equal to 0, divided by the row count, is strictly greater than    *)
(* zero_threshold; a ratio equal to the threshold is not flagged; there is *)
(* exactly one entry per flagged column and it carries that ratio; other   *)
(* columns have no entry.                                                  *)
C6_ZeroPrevalence ==
    Returned =>
        \A col \in Columns :
            LET zeros   == Cardinality({i \in 1..Len(col.cells) : col.cells[i] = 0})
                rows    == Len(col.cells)
                over    == /\ col.dtype \in {"int64", "float64"}
                           /\ rows > 0
                           /\ zeros * zero_threshold.d > zero_threshold.n * rows
                entries == {i \in 1..Len(quality.zero_columns) :
                               quality.zero_columns[i].column = col.name}
            IN  /\ Cardinality(entries) = (IF over THEN 1 ELSE 0)
                /\ \A i \in entries :
                      quality.zero_columns[i].zero_ratio.n * rows
                          = zeros * quality.zero_columns[i].zero_ratio.d
                /\ quality.has_many_zeros <=> (quality.zero_columns # <<>>)

(* C6 witness: 10 rows with 7 zeros at threshold 0.5 flagged with 0.7. *)
C6_Witness ==
    /\ Returned
    /\ Len(df) = 1
    /\ Len(df[1].cells) = 10
    /\ Cardinality({i \in 1..10 : df[1].cells[i] = 0}) = 7
    /\ zero_threshold = [n |-> 1, d |-> 2]
    /\ Len(quality.zero_columns) = 1
    /\ quality.zero_columns[1].zero_ratio = [n |-> 7, d |-> 10]

(* C7: a column is flagged high-cardinality iff it is categorical and its  *)
(* distinct-value count is strictly greater than the threshold, so that    *)
(* for one table every threshold below the count flags it and every        *)
(* threshold at or above it does not; numeric columns are never flagged.   *)
C7_HighCardinality ==
    Returned =>
        /\ \A col \in Columns :
              (col.name \in Range(quality.high_cardinality_cols))
                  <=> /\ col.dtype \in {"object", "category", "string"}
                      /\ Cardinality(Values(col)) > high_cardinality_threshold
        /\ quality.has_high_cardinality <=> (quality.high_cardinality_cols # <<>>)

(* C7 witness: a categorical column with one more distinct value than the *)
(* threshold has been flagged.                                            *)
C7_Witness ==
    /\ Returned
    /\ quality.has_high_cardinality
    /\ \E col \in Columns :
          /\ col.dtype = "object"
          /\ Cardinality(Values(col)) = high_cardinality_threshold + 1
          /\ high_cardinality_threshold >= 1
          /\ col.name \in Range(quality.high_cardinality_cols)

-----------------------------------------------------------------------------
NonMissing(col) == Cardinality({i \in 1..Len(col.cells) : col.cells[i] # NaN})

IsNumber(col) == col.dtype \in {"int64", "float64"}

OutlierEntries(col) ==
    {i \in 1..Len(quality.outlier_columns) :
        quality.outlier_columns[i].column = col.name}

(* The Tukey fences of a column for the configured multiplier. *)
FenceLow(col) ==
    LET lowq == quantile(col.cells, 1)
        uppq == quantile(col.cells, 3)
    IN  RSub(lowq, RMul(outlier_threshold, RSub(uppq, lowq)))
FenceHigh(col) ==
    LET lowq == quantile(col.cells, 1)
        uppq == quantile(col.cells, 3)
    IN  RAdd(uppq, RMul(outlier_threshold, RSub(uppq, lowq)))

(* The cells strictly outside the fences. *)
Outside(col) ==
    LET lo == FenceLow(col)
        hi == FenceHigh(col)
    IN  {i \in 1..Len(col.cells) :
            /\ col.cells[i] # NaN
            /\ \/ col.cells[i] * lo.d < lo.n
               \/ col.cells[i] * hi.d > hi.n}

(* C8: a numeric column with 10 or more values whose first and third       *)
(* quartiles are equal is never entered in outlier_columns and costs no    *)
(* outlier penalty, whatever lies outside the quartiles and whatever the   *)
(* multiplier is.                                                          *)
C8_FlatQuartiles ==
    Returned =>
        \A col \in Columns :
            (/\ IsNumber(col)
             /\ NonMissing(col) >= 10
             /\ quantile(col.cells, 1) = quantile(col.cells, 3))
            => /\ OutlierEntries(col) = {}
               /\ Len(df) = 1 =>
                     /\ ~quality.has_outliers
                     /\ quality.quality_score =
                            100 - 10 * Len(quality.constant_columns)
                                - 15 * Cardinality(DOMAIN quality.duplicate_id_info)
                                - 8 * Len(quality.zero_columns)

(* C8 witness: equal quartiles with more than 5% of the rows holding       *)
(* another value, and a positive multiplier.                               *)
C8_Witness ==
    /\ Returned
    /\ outlier_threshold = [n |-> 3, d |-> 2]
    /\ \E col \in Columns :
          /\ IsNumber(col)
          /\ NonMissing(col) >= 10
          /\ quantile(col.cells, 1) = quantile(col.cells, 3)
          /\ Cardinality({i \in 1..Len(col.cells) :
                            /\ col.cells[i] # NaN
                            /\ OfInt(col.cells[i]) # quantile(col.cells, 1)}) >= 2
          /\ quality.outlier_columns = <<>>

ImbalanceEntries(col) ==
    {i \in 1..Len(quality.imbalanced_columns) :
        quality.imbalanced_columns[i].column = col.name}

Occurrences(col, v) == Cardinality({i \in 1..Len(col.cells) : col.cells[i] = v})

(* C10: a categorical column with more than one distinct value is flagged  *)
(* imbalanced iff the share of its most frequent value among its           *)
(* non-missing cells is strictly greater than imbalance_threshold; the     *)
(* entry records a most frequent value, its share and the number of        *)
(* distinct values; a categorical column with one distinct value is never  *)
(* flagged.                                                                *)
C10_Imbalance ==
    Returned =>
        \A col \in Columns :
            /\ Cardinality(Values(col)) = 1 => ImbalanceEntries(col) = {}
            /\ (col.dtype \in {"object", "category", "string"}
                /\ Cardinality(Values(col)) > 1)
               => \E top \in Values(col) :
                    /\ \A v \in Values(col) : Occurrences(col, v) <= Occurrences(col, top)
                    /\ (ImbalanceEntries(col) # {})
                          <=> (Occurrences(col, top) * imbalance_threshold.d
                                  > imbalance_threshold.n * NonMissing(col))
                    /\ \A i \in ImbalanceEntries(col) :
                          LET e == quality.imbalanced_columns[i]
                          IN  /\ Occurrences(col, e.dominant_category)
                                    = Occurrences(col, top)
                              /\ e.dominant_ratio.n * NonMissing(col)
                                    = Occurrences(col, top) * e.dominant_ratio.d
                              /\ e.unique_categories = Cardinality(Values(col))

(* C10 witness: two categories split 19 to 1 at threshold 0.9, flagged     *)
(* with dominant_ratio 0.95.                                               *)
C10_Witness ==
    /\ Returned
    /\ imbalance_threshold = [n |-> 9, d |-> 10]
    /\ Len(df) = 1
    /\ Len(df[1].cells) = 20
    /\ Cardinality(Values(df[1])) = 2
    /\ ~HasMissingCell(df[1])
    /\ quality.has_imbalanced_categories
    /\ Len(quality.imbalanced_columns) = 1
    /\ quality.imbalanced_columns[1].dominant_ratio = [n |-> 19, d |-> 20]
    /\ quality.imbalanced_columns[1].unique_categories = 2

-----------------------------------------------------------------------------
(* The handler has returned its response or raised its HTTPException. *)
Answered == req.pc = "done"

(* C11: in both upload handlers, on every exit path after the temporary    *)
(* file was created (normal return, failure while reading the upload or    *)
(* writing it, load failure, analysis failure), the temporary file has     *)
(* been deleted by the time the handler returns or raises.                 *)
C11_TempFileDeleted ==
    (Answered /\ req.created) => ~req.tmp_file

(* The uploaded name ends in the four characters ".csv". *)
NamedCsv ==
    LET name == req.filename
        n    == Len(name)
    IN  /\ n >= 4
        /\ name[n - 3] = 46
        /\ name[n - 2] = 99
        /\ name[n - 1] = 115
        /\ name[n] = 118

-----------------------------------------------------------------------------
ColumnNames == {df[i].name : i \in 1..Len(df)}

(* The entry is a record with the column, the threshold and at least one   *)
(* more field, the metric.                                                 *)
CarriesAll(e) ==
    /\ {"column", "threshold"} \subseteq DOMAIN e
    /\ DOMAIN e \ {"column", "threshold"} # {}
    /\ e.column \in ColumnNames

C14_Original ==
    Returned =>
        \A col \in Columns :
            (/\ IdNamed(col)
             /\ \E i, j \in 1..Len(col.cells) :
                   i # j /\ col.cells[i] = col.cells[j] /\ col.cells[i] # NaN)
            => /\ col.name \in DOMAIN quality.duplicate_id_info
               /\ DOMAIN quality.duplicate_id_info[col.name] = {}
               /\ quality.duplicate_id_info[col.name] =
                     Cardinality({i \in 1..Len(col.cells) :
                                    \E j \in 1..(i - 1) : col.cells[j] = col.cells[i]})

AllKeys ==
    {"quality_score", "has_constant_columns", "has_high_cardinality",
     "has_id_duplicates", "has_many_zeros", "has_outliers",
     "has_imbalanced_categories", "constant_columns", "high_cardinality_cols",
     "high_cardinality_details", "duplicate_id_info", "zero_columns",
     "outlier_columns", "imbalanced_columns", "columns_with_missing",
     "missing_count", "duplicate_count"}

(* C15: in every returned report each has_* flag is true iff its findings  *)
(* collection is non-empty, high_cardinality_cols and                      *)
(* high_cardinality_details name the same columns in the same order, and   *)
(* every key of the report is present.                                     *)
C15_FlagsAgree ==
    Returned =>
        /\ DOMAIN quality = AllKeys
        /\ quality.has_constant_columns <=> (quality.constant_columns # <<>>)
        /\ quality.has_high_cardinality <=> (quality.high_cardinality_cols # <<>>)
        /\ Len(quality.high_cardinality_details) = Len(quality.high_cardinality_cols)
        /\ \A i \in 1..Len(quality.high_cardinality_cols) :
              quality.high_cardinality_details[i].column
                  = quality.high_cardinality_cols[i]
        /\ quality.has_id_duplicates <=> (DOMAIN quality.duplicate_id_info # {})
        /\ quality.has_many_zeros <=> (quality.zero_columns # <<>>)
        /\ quality.has_outliers <=> (quality.outlier_columns # <<>>)
        /\ quality.has_imbalanced_categories <=> (quality.imbalanced_columns # <<>>)

(* C15 witness: two high-cardinality columns around a zero-heavy one, in a *)
(* report without outliers.                                                *)
C15_Witness ==
    /\ Returned
    /\ Len(quality.high_cardinality_cols) = 2
    /\ quality.high_cardinality_cols[1] # quality.high_cardinality_cols[2]
    /\ quality.has_many_zeros
    /\ quality.has_imbalanced_categories
    /\ ~quality.has_outliers
    /\ quality.outlier_columns = <<>>

=============================================================================
